---- MODULE Spec2Model ----
(***************************************************************************)
(* Model of src/unreal_mcp_client.py: the connection slot socket_client,   *)
(* connect_to_unreal() and send_command(), with the TCP peer as the        *)
(* environment.                                                            *)
(*                                                                         *)
(* Bytes and text.  A byte string or a text is a sequence of units.  A     *)
(* unit is one structural character ({ } [ ] : , " ' \ newline, a digit),  *)
(* or a run of letters written as one unit ("status", "success", "a"), or  *)
(* one of two special units: InvalidByte (a byte that is not valid UTF-8)  *)
(* and BigDigits (a run of 4301 decimal digits, one digit more than        *)
(* CPython's default limit for converting a digit string to an int).       *)
(* strip, replace and the JSON scanner act on units exactly as the Python  *)
(* functions act on the characters the units stand for; letter runs are    *)
(* inert for all three.                                                    *)
(***************************************************************************)
EXTENDS Integers, Sequences, FiniteSets, TLC

VARIABLES
    socket_client,  \* the module global: 0 is None, n > 0 is the n-th socket opened
    opened,         \* number of sockets opened so far (identity of the next handle)
    peer,           \* state of the remote end of socket_client: "none", "open", "closed", "reset"
    wire,           \* bytes the remote has sent on socket_client that no recv has returned yet
    pc,             \* position of the program: "boot" (before app_lifespan), "idle", and in
                    \* send_command "start", "send", "recv", "loop", "except",
                    \* "done" (returned), "raised" (an exception left send_command)
    command,        \* send_command's argument command
    params,         \* send_command's argument params ("None" or a mapping)
    depth,          \* number of send_command frames below the current one (line 100)
    connects,       \* calls of connect_to_unreal made by the current call of send_command
    sends,          \* calls of sendall made by the current call
    recvs,          \* calls of recv made by the current call (counted up to MaxCount)
    faults,         \* entries into the except block of line 96 by the current call
    exc,            \* the exception e bound at line 96
    remoteSent,     \* the reply the remote wrote in answer to the last sendall (<<>> if none)
    chunk,          \* the bytes the last recv returned
    rxSlot,         \* socket_client when the last recv returned
    ret,            \* source line of the return statement that ended the call (0: none)
    replies,        \* number of values returned to the caller by the current call
    reply,          \* the value returned
    lifespan,       \* what app_lifespan yielded at startup ("none" before it ran)
    callArgs,       \* the arguments <<command, params>> the adapter passed to the current call
    payload,        \* the bytes handed to the last sendall (line 58)
    faulted,        \* the handles on which a sendall or a recv has raised
    stale           \* at the last sendall: the unread bytes the remote had written before it

vars == <<socket_client, opened, peer, wire, pc, command, params, depth, connects,
          sends, recvs, faults, exc, remoteSent, chunk, rxSlot, ret, replies, reply,
          lifespan, callArgs, payload, faulted, stale>>

-----------------------------------------------------------------------------
(* Bounds of the model.                                                    *)

\* Sockets the environment lets the program open; bounds the recursion of line 100.
MaxOpened == 3
\* recvs is counted up to this number and stays there.
MaxCount == 3
\* Most bytes the remote leaves unread on one connection.
MaxWire == 20
\* Longest byte string of the decoder specification.
MaxChunkLen == 4

-----------------------------------------------------------------------------
(* Text helpers: str.strip, str.replace, bytes.decode.                     *)

InvalidByte == "xFF"
ReplacementChar == "uFFFD"
BigDigits == "9x4301"

\* line 70: chunk.decode('utf-8', 'replace')
decode_utf8(bytes) ==
    [i \in 1..Len(bytes) |-> IF bytes[i] = InvalidByte THEN ReplacementChar ELSE bytes[i]]

\* line 71: the characters of the argument of strip
StripChars == {"'", "\"", "\n", "\r"}

RECURSIVE lstrip(_)
lstrip(s) == IF s # <<>> /\ Head(s) \in StripChars THEN lstrip(Tail(s)) ELSE s

RECURSIVE rstrip(_)
rstrip(s) ==
    IF s # <<>> /\ s[Len(s)] \in StripChars THEN rstrip(SubSeq(s, 1, Len(s) - 1)) ELSE s

\* line 71: decoded.strip('\'"\n\r')
strip(s) == rstrip(lstrip(s))

\* line 72: stripped.replace('\\\'', ''): left to right, without overlap
RECURSIVE replace(_)
replace(s) ==
    IF Len(s) < 2 THEN s
    ELSE IF s[1] = "\\" /\ s[2] = "'" THEN replace(SubSeq(s, 3, Len(s)))
    ELSE <<s[1]>> \o replace(Tail(s))

-----------------------------------------------------------------------------
(* json.loads (line 73), as CPython's scanner works, on the units of the   *)
(* model: objects, arrays, strings with the escapes \" \\ \/, unsigned     *)
(* integers, null, true, false, and whitespace between tokens.  A result   *)
(* is [err, val, pos]: err is "none", "JSONDecodeError" or "ValueError".   *)
(* Values: <<"object", pairs>>, <<"array", items>>, <<"str", units>>,      *)
(* <<"int", digits>>, <<"true">>, <<"false">>, and NoValue for null.       *)

Whitespace == {" ", "\t", "\n", "\r"}
Digits == {"0", "1", "2", "3", "4", "5", "6", "7", "8", "9"}
Literals == {"null", "true", "false"}
\* None: the value of the literal null, and the initial value of response (line 61)
NoValue == <<"None">>
SimpleEscapes == {"\"", "\\", "/"}

ScanErr(kind) == [err |-> kind, val |-> <<>>, pos |-> 0]
ScanOk(v, p) == [err |-> "none", val |-> v, pos |-> p]

RECURSIVE skip_ws(_, _)
skip_ws(t, i) == IF i <= Len(t) /\ t[i] \in Whitespace THEN skip_ws(t, i + 1) ELSE i

\* dict semantics for a repeated key: the first position, the last value
RECURSIVE dict_put(_, _, _)
dict_put(pairs, k, v) ==
    IF pairs = <<>> THEN << <<k, v>> >>
    ELSE IF Head(pairs)[1] = k THEN << <<k, v>> >> \o Tail(pairs)
    ELSE <<Head(pairs)>> \o dict_put(Tail(pairs), k, v)

\* i is the position after the opening quote; control characters are refused
\* (strict).  A backslash is followed in the model's byte strings by a structural
\* character, by the letter a, or by nothing, never by an escape letter (b f n r t u).
RECURSIVE scan_string(_, _, _)
scan_string(t, i, acc) ==
    IF i > Len(t) THEN ScanErr("JSONDecodeError")
    ELSE IF t[i] = "\"" THEN ScanOk(<<"str", acc>>, i + 1)
    ELSE IF t[i] = "\\" THEN
        IF i + 1 <= Len(t) /\ t[i + 1] \in SimpleEscapes
        THEN scan_string(t, i + 2, Append(acc, t[i + 1]))
        ELSE ScanErr("JSONDecodeError")
    ELSE IF t[i] \in {"\n", "\r", "\t"} THEN ScanErr("JSONDecodeError")
    ELSE scan_string(t, i + 1, Append(acc, t[i]))

RECURSIVE digit_run_end(_, _)
digit_run_end(t, i) ==
    IF i <= Len(t) /\ t[i] \in Digits \cup {BigDigits} THEN digit_run_end(t, i + 1) ELSE i

\* (0|[1-9]\d*) and then int(): more than 4300 digits raise ValueError
scan_number(t, i) ==
    IF t[i] = "0" THEN ScanOk(<<"int", <<"0">>>>, i + 1)
    ELSE LET e == digit_run_end(t, i)
         IN  IF \E j \in i..(e - 1) : t[j] = BigDigits
             THEN ScanErr("ValueError")
             ELSE ScanOk(<<"int", SubSeq(t, i, e - 1)>>, e)

RECURSIVE scan_value(_, _)
RECURSIVE scan_array(_, _, _)
RECURSIVE scan_object(_, _, _)

scan_value(t, i) ==
    IF i > Len(t) THEN ScanErr("JSONDecodeError")
    ELSE IF t[i] = "\"" THEN scan_string(t, i + 1, <<>>)
    ELSE IF t[i] = "{" THEN
        LET j == skip_ws(t, i + 1)
        IN  IF j <= Len(t) /\ t[j] = "}" THEN ScanOk(<<"object", <<>>>>, j + 1)
            ELSE scan_object(t, j, <<>>)
    ELSE IF t[i] = "[" THEN
        LET j == skip_ws(t, i + 1)
        IN  IF j <= Len(t) /\ t[j] = "]" THEN ScanOk(<<"array", <<>>>>, j + 1)
            ELSE scan_array(t, j, <<>>)
    ELSE IF t[i] \in Literals
    THEN ScanOk(IF t[i] = "null" THEN NoValue ELSE <<t[i]>>, i + 1)
    ELSE IF t[i] \in Digits \cup {BigDigits} THEN scan_number(t, i)
    ELSE ScanErr("JSONDecodeError")

\* i is the position where the next item must start
scan_array(t, i, items) ==
    LET v == scan_value(t, i)
    IN  IF v.err # "none" THEN v
        ELSE LET e == skip_ws(t, v.pos)
                 more == Append(items, v.val)
             IN  IF e > Len(t) THEN ScanErr("JSONDecodeError")
                 ELSE IF t[e] = "]" THEN ScanOk(<<"array", more>>, e + 1)
                 ELSE IF t[e] = "," THEN scan_array(t, skip_ws(t, e + 1), more)
                 ELSE ScanErr("JSONDecodeError")

\* i is the position where the next property name must start
scan_object(t, i, pairs) ==
    IF i > Len(t) \/ t[i] # "\"" THEN ScanErr("JSONDecodeError")
    ELSE LET k == scan_string(t, i + 1, <<>>)
         IN  IF k.err # "none" THEN k
             ELSE LET c == skip_ws(t, k.pos)
                  IN  IF c > Len(t) \/ t[c] # ":" THEN ScanErr("JSONDecodeError")
                      ELSE LET v == scan_value(t, skip_ws(t, c + 1))
                           IN  IF v.err # "none" THEN v
                               ELSE LET e == skip_ws(t, v.pos)
                                        more == dict_put(pairs, k.val[2], v.val)
                                    IN  IF e > Len(t) THEN ScanErr("JSONDecodeError")
                                        ELSE IF t[e] = "}"
                                        THEN ScanOk(<<"object", more>>, e + 1)
                                        ELSE IF t[e] = ","
                                        THEN scan_object(t, skip_ws(t, e + 1), more)
                                        ELSE ScanErr("JSONDecodeError")

\* line 73: json.loads(replaced); text after the value is "Extra data"
json_loads(t) ==
    LET r == scan_value(t, skip_ws(t, 1))
    IN  IF r.err # "none" THEN r
        ELSE IF skip_ws(t, r.pos) = Len(t) + 1 THEN r
        ELSE ScanErr("JSONDecodeError")

-----------------------------------------------------------------------------
(* Values built by the program, in the representation of parsed values.    *)

Str(units) == <<"str", units>>
Key(word) == <<word>>

\* {"status": "error", "message": msg} (lines 46, 89, 101)
ErrorReply(msg) ==
    <<"object", << <<Key("status"), Str(<<"error">>)>>, <<Key("message"), Str(msg)>> >> >>

IsObject(v) == v[1] = "object"

\* v.get(key) for a mapping v
RECURSIVE pairs_get(_, _)
pairs_get(pairs, k) ==
    IF pairs = <<>> THEN NoValue
    ELSE IF Head(pairs)[1] = k THEN Head(pairs)[2]
    ELSE pairs_get(Tail(pairs), k)

dict_get(v, word) == pairs_get(v[2], Key(word))

\* the characters of a string as json.dumps writes them: " and \ are escaped
RECURSIVE dumps_chars(_)
dumps_chars(units) ==
    IF units = <<>> THEN <<>>
    ELSE (IF Head(units) \in {"\"", "\\"} THEN <<"\\", Head(units)>> ELSE <<Head(units)>>)
         \o dumps_chars(Tail(units))

\* line 58: json.dumps with the default separators ", " and ": "
RECURSIVE json_dumps(_)
RECURSIVE dumps_items(_)
RECURSIVE dumps_pairs(_)

json_dumps(v) ==
    IF v = NoValue THEN <<"null">>
    ELSE IF v[1] = "str" THEN <<"\"">> \o dumps_chars(v[2]) \o <<"\"">>
    ELSE IF v[1] = "int" THEN v[2]
    ELSE IF v[1] = "array" THEN <<"[">> \o dumps_items(v[2]) \o <<"]">>
    ELSE IF v[1] = "object" THEN <<"{">> \o dumps_pairs(v[2]) \o <<"}">>
    ELSE <<v[1]>>

dumps_items(items) ==
    IF items = <<>> THEN <<>>
    ELSE json_dumps(Head(items))
         \o (IF Len(items) > 1 THEN <<",", " ">> \o dumps_items(Tail(items)) ELSE <<>>)

dumps_pairs(pairs) ==
    IF pairs = <<>> THEN <<>>
    ELSE json_dumps(Str(Head(pairs)[1])) \o <<":", " ">> \o json_dumps(Head(pairs)[2])
         \o (IF Len(pairs) > 1 THEN <<",", " ">> \o dumps_pairs(Tail(pairs)) ELSE <<>>)

\* A slip that sends an empty mapping whatever the caller passed.
message_without_params(cmd, prm) ==
    <<"object", << <<Key("command"), Str(<<cmd>>)>>, <<Key("params"), <<"object", <<>>>>>> >> >>

\* lines 51-54: message = {"command": command, "params": params}
build_message(cmd, prm) ==
    <<"object", << <<Key("command"), Str(<<cmd>>)>>, <<Key("params"), prm>> >> >>

\* str(je), the parser's own description of the error
JsonErrorText == <<"Expecting value: line 1 column 1 (char 0)">>

\* A slip that prefers the stripped text to the text after the removal.
select_stripped_first(replaced, stripped, decoded) ==
    IF stripped # <<>> THEN stripped
    ELSE IF replaced # <<>> THEN replaced
    ELSE IF decoded # <<>> THEN decoded
    ELSE JsonErrorText

\* A slip that reports the raw text whenever there is some.
select_raw_first(replaced, stripped, decoded) ==
    IF decoded # <<>> THEN decoded ELSE JsonErrorText

\* lines 82-88: the text put into the message on a JSONDecodeError
select_msg(replaced, stripped, decoded) ==
    IF replaced # <<>> THEN replaced
    ELSE IF stripped # <<>> THEN stripped
    ELSE IF decoded # <<>> THEN decoded
    ELSE JsonErrorText

\* lines 67-89: exc is "none" when the block ends normally with response set, and
\* otherwise the exception that leaves the block for the handler of line 96
decode_response(bytes) ==
    LET decoded == decode_utf8(bytes)
        stripped == strip(decoded)
        replaced == replace(stripped)
        r == json_loads(replaced)
    IN  IF r.err = "none" THEN [exc |-> "none", response |-> r.val]
        ELSE IF r.err = "JSONDecodeError"
        THEN [exc |-> "none",
              response |-> ErrorReply(<<"Json error: ">>
                                      \o select_msg(replaced, stripped, decoded))]
        ELSE [exc |-> r.err, response |-> NoValue]

-----------------------------------------------------------------------------
(* connect_to_unreal (lines 29-39).  reachable: whether socket() and       *)
(* connect() succeed.  The result is the new value of socket_client, the   *)
(* value returned, and whether an exception leaves the function.           *)

\* A slip that forgets line 38: the socket that failed to connect stays in the slot.
connect_keeping_failed_socket(reachable, n) ==
    [slot |-> n + 1, ret |-> reachable, raises |-> FALSE]

\* A slip that catches nothing: the failure leaves the function as an exception.
connect_without_except(reachable, n) ==
    IF reachable
    THEN [slot |-> n + 1, ret |-> TRUE, raises |-> FALSE]
    ELSE [slot |-> n + 1, ret |-> FALSE, raises |-> TRUE]

connect_to_unreal(reachable, n) ==
    IF reachable
    THEN [slot |-> n + 1, ret |-> TRUE, raises |-> FALSE]
    ELSE [slot |-> 0, ret |-> FALSE, raises |-> FALSE]

\* A slip that makes a failed connection at startup fatal.
lifespan_fatal_when_not_connected(connected) ==
    IF connected
    THEN [yield |-> "Connected to Unreal Engine", raises |-> FALSE]
    ELSE [yield |-> "none", raises |-> TRUE]

\* app_lifespan (lines 11-18) after its call of connect_to_unreal: what it yields
app_lifespan(connected) ==
    IF connected
    THEN [yield |-> "Connected to Unreal Engine", raises |-> FALSE]
    ELSE [yield |-> "Warning: Not connected to Unreal Engine. Make sure the plugin is running.",
          raises |-> FALSE]

-----------------------------------------------------------------------------
(* The remote endpoint and the callers (the environment).                  *)

Q == "\""

\* {"status":"success","result":[]}
ReplyActors ==
    <<"{", Q, "status", Q, ":", Q, "success", Q, ",", Q, "result", Q, ":", "[", "]", "}">>
\* {"status":"error","message":"boom"}
ReplyRemoteError ==
    <<"{", Q, "status", Q, ":", Q, "error", Q, ",", Q, "message", Q, ":", Q, "boom", Q, "}">>
\* {"status":"success","result":"\\'"}: the result is the two characters \'
ReplyEscaped ==
    <<"{", Q, "status", Q, ":", Q, "success", Q, ",", Q, "result", Q, ":",
      Q, "\\", "\\", "'", Q, "}">>
\* {"status":"success","result":99...9} with 4301 digits
ReplyBigInt ==
    <<"{", Q, "status", Q, ":", Q, "success", Q, ",", Q, "result", Q, ":", BigDigits, "}">>

RemoteReplies == {ReplyActors, ReplyRemoteError, ReplyEscaped, ReplyBigInt}

\* the calls the operation adapters make: get_actors (line 119), execute_python (line 400)
\* execute_python wraps the code in two double quotes on each side (line 398)
CodeParams == <<"object", << <<Key("code"), Str(<<Q, Q, "pass", Q, Q>>)>> >> >>
EmptyParams == <<"object", <<>>>>
Requests == {<<"get_actors", NoValue>>, <<"execute_python", CodeParams>>}

Bump(n) == IF n < MaxCount THEN n + 1 ELSE n

-----------------------------------------------------------------------------
(* Initial state: the module has been loaded, socket_client = None         *)
(* (line 26), the server has not started yet.                              *)

Init ==
    /\ socket_client = 0
    /\ opened = 0
    /\ peer = "none"
    /\ wire = <<>>
    /\ pc = "boot"
    /\ command = "none"
    /\ params = NoValue
    /\ depth = 0
    /\ connects = 0
    /\ sends = 0
    /\ recvs = 0
    /\ faults = 0
    /\ exc = "none"
    /\ remoteSent = <<>>
    /\ chunk = <<>>
    /\ rxSlot = 0
    /\ ret = 0
    /\ replies = 0
    /\ reply = NoValue
    /\ lifespan = "none"
    /\ callArgs = <<"none", NoValue>>
    /\ payload = <<>>
    /\ faulted = {}
    /\ stale = 0

\* a return statement of the outermost frame, or of a frame it returns through (line 100)
Return(line, value) ==
    /\ pc' = "done"
    /\ ret' = line
    /\ replies' = replies + 1
    /\ reply' = value

\* the effect of connect_to_unreal on the slot and on the connection it holds
Connected(c) ==
    /\ socket_client' = c.slot
    /\ opened' = IF c.slot > opened THEN c.slot ELSE opened
    /\ peer' = IF c.ret THEN "open" ELSE "none"
    /\ wire' = <<>>
    /\ stale' = 0
    /\ connects' = connects + 1

\* an adapter calls send_command(command, params)
Call ==
    /\ pc \in {"idle", "done"}
    /\ \E rq \in Requests : command' = rq[1] /\ params' = rq[2] /\ callArgs' = rq
    /\ payload' = <<>>
    /\ pc' = "start"
    /\ depth' = 0
    /\ connects' = 0 /\ sends' = 0 /\ recvs' = 0 /\ faults' = 0
    /\ exc' = "none"
    /\ remoteSent' = <<>> /\ chunk' = <<>> /\ rxSlot' = 0
    /\ ret' = 0 /\ replies' = 0 /\ reply' = NoValue
    /\ UNCHANGED <<socket_client, opened, peer, wire, lifespan, faulted, stale>>

\* app_lifespan (lines 11-18): the server starts and connect_to_unreal succeeds
StartupConnectOk ==
    /\ pc = "boot"
    /\ opened < MaxOpened
    /\ LET c == connect_to_unreal(TRUE, opened)
           l == app_lifespan(c.ret)
       IN  /\ Connected(c)
           /\ pc' = IF c.raises \/ l.raises THEN "raised" ELSE "idle"
           /\ lifespan' = l.yield
    /\ UNCHANGED <<command, params, depth, sends, recvs, faults, exc, remoteSent, chunk,
                   rxSlot, ret, replies, reply, callArgs, payload, faulted>>

\* app_lifespan (lines 11-18): the server starts and connect_to_unreal fails
StartupConnectFail ==
    /\ pc = "boot"
    /\ LET c == connect_to_unreal(FALSE, opened)
           l == app_lifespan(c.ret)
       IN  /\ Connected(c)
           /\ pc' = IF c.raises \/ l.raises THEN "raised" ELSE "idle"
           /\ lifespan' = l.yield
    /\ UNCHANGED <<command, params, depth, sends, recvs, faults, exc, remoteSent, chunk,
                   rxSlot, ret, replies, reply, callArgs, payload, faulted>>

\* lines 44-54 with a socket in the slot: no connection attempt
StartConnected ==
    /\ pc = "start"
    /\ socket_client # 0
    /\ pc' = "send"
    /\ params' = IF params = NoValue THEN EmptyParams ELSE params
    /\ UNCHANGED <<socket_client, opened, peer, wire, command, depth, connects, sends,
                   recvs, faults, exc, remoteSent, chunk, rxSlot, ret, replies, reply,
                   lifespan, callArgs, payload, faulted, stale>>

\* lines 44-54 with an empty slot: connect_to_unreal succeeds
StartConnectOk ==
    /\ pc = "start"
    /\ socket_client = 0
    /\ opened < MaxOpened
    /\ LET c == connect_to_unreal(TRUE, opened)
       IN  /\ Connected(c)
           /\ pc' = IF c.raises THEN "raised" ELSE "send"
    /\ params' = IF params = NoValue THEN EmptyParams ELSE params
    /\ UNCHANGED <<command, depth, sends, recvs, faults, exc, remoteSent, chunk, rxSlot,
                   ret, replies, reply, lifespan, callArgs, payload, faulted>>

\* A slip that ignores the result of connect_to_unreal and goes on to send.
StartConnectFailThenSend ==
    /\ pc = "start"
    /\ socket_client = 0
    /\ Connected(connect_to_unreal(FALSE, opened))
    /\ pc' = "send"
    /\ params' = IF params = NoValue THEN EmptyParams ELSE params
    /\ UNCHANGED <<command, depth, sends, recvs, faults, exc, remoteSent, chunk, rxSlot,
                   ret, replies, reply, lifespan, callArgs, payload, faulted>>

\* lines 44-46 with an empty slot: connect_to_unreal fails
StartConnectFail ==
    /\ pc = "start"
    /\ socket_client = 0
    /\ LET c == connect_to_unreal(FALSE, opened)
       IN  /\ Connected(c)
           /\ IF c.raises
              THEN pc' = "raised" /\ UNCHANGED <<ret, replies, reply>>
              ELSE Return(46, ErrorReply(<<"Not connected to Unreal Engine">>))
    /\ UNCHANGED <<command, params, depth, sends, recvs, faults, exc, remoteSent, chunk,
                   rxSlot, lifespan, callArgs, payload, faulted>>

\* line 58: sendall raises (broken pipe, connection reset, ...)
SendFault ==
    /\ pc = "send"
    /\ sends' = sends + 1
    /\ faults' = faults + 1
    /\ exc' = "BrokenPipeError"
    /\ pc' = "except"
    /\ payload' = json_dumps(build_message(command, params))
    /\ faulted' = faulted \cup {socket_client}
    /\ UNCHANGED <<socket_client, opened, peer, wire, command, params, depth, connects,
                   recvs, remoteSent, chunk, rxSlot, ret, replies, reply, lifespan,
                   callArgs, stale>>

\* line 58: sendall returns; the remote, if it is still there, answers with a reply,
\* closes the connection, or resets it
SendOk ==
    /\ pc = "send"
    /\ peer \in {"open", "closed"}
    /\ sends' = sends + 1
    /\ pc' = "recv"
    /\ payload' = json_dumps(build_message(command, params))
    /\ stale' = Len(wire)
    /\ \/ /\ peer = "open"
          /\ \E r \in RemoteReplies :
                /\ Len(wire) + Len(r) <= MaxWire
                /\ wire' = wire \o r
                /\ remoteSent' = r
          /\ peer' = peer
       \/ /\ peer = "open"
          /\ peer' \in {"closed", "reset"}
          /\ wire' = wire
          /\ remoteSent' = <<>>
       \/ /\ peer = "closed"
          /\ UNCHANGED <<peer, wire>>
          /\ remoteSent' = <<>>
    /\ UNCHANGED <<socket_client, opened, command, params, depth, connects, recvs, faults,
                   exc, chunk, rxSlot, ret, replies, reply, lifespan, callArgs, faulted>>

\* lines 63-94: recv returns the first k unread bytes; they are decoded, and the
\* response is returned unless the decoding raises something line 79 does not catch
RecvChunk ==
    /\ pc = "recv"
    /\ wire # <<>>
    /\ \E k \in 1..Len(wire) :
          /\ chunk' = SubSeq(wire, 1, k)
          /\ wire' = SubSeq(wire, k + 1, Len(wire))
    /\ recvs' = Bump(recvs)
    /\ rxSlot' = socket_client
    /\ LET d == decode_response(chunk')
       IN  IF d.exc = "none"
           THEN Return(94, d.response) /\ UNCHANGED <<faults, exc>>
           ELSE /\ pc' = "except"
                /\ exc' = d.exc
                /\ faults' = faults + 1
                /\ UNCHANGED <<ret, replies, reply>>
    /\ UNCHANGED <<socket_client, opened, peer, command, params, depth, connects, sends,
                   remoteSent, lifespan, callArgs, payload, faulted, stale>>

\* line 63: recv returns b'' (the remote closed the connection and nothing is unread)
RecvEmpty ==
    /\ pc = "recv"
    /\ wire = <<>>
    /\ peer = "closed"
    /\ recvs' = Bump(recvs)
    /\ chunk' = <<>>
    /\ rxSlot' = socket_client
    /\ pc' = "loop"
    /\ UNCHANGED <<socket_client, opened, peer, wire, command, params, depth, connects,
                   sends, faults, exc, remoteSent, ret, replies, reply, lifespan, callArgs,
                   payload, faulted, stale>>

\* lines 64 and 62: "if chunk" is false for b'', the break of line 91 is not reached,
\* and "while True" runs the recv of line 63 again
LoopAgain ==
    /\ pc = "loop"
    /\ pc' = "recv"
    /\ UNCHANGED <<socket_client, opened, peer, wire, command, params, depth, connects,
                   sends, recvs, faults, exc, remoteSent, chunk, rxSlot, ret, replies,
                   reply, lifespan, callArgs, payload, faulted, stale>>

\* line 63: recv raises (the remote reset the connection)
RecvFault ==
    /\ pc = "recv"
    /\ peer = "reset"
    /\ recvs' = Bump(recvs)
    /\ faults' = faults + 1
    /\ exc' = "ConnectionResetError"
    /\ pc' = "except"
    /\ faulted' = faulted \cup {socket_client}
    /\ UNCHANGED <<socket_client, opened, peer, wire, command, params, depth, connects,
                   sends, remoteSent, chunk, rxSlot, ret, replies, reply, lifespan,
                   callArgs, payload, stale>>

\* lines 96-100: the reconnect succeeds and send_command calls itself
ReconnectOk ==
    /\ pc = "except"
    /\ opened < MaxOpened
    /\ LET c == connect_to_unreal(TRUE, opened)
       IN  /\ Connected(c)
           /\ pc' = IF c.raises THEN "raised" ELSE "start"
    /\ depth' = depth + 1
    /\ UNCHANGED <<command, params, sends, recvs, faults, exc, remoteSent, chunk, rxSlot,
                   ret, replies, reply, lifespan, callArgs, payload, faulted>>

\* A slip whose handler returns the error without calling connect_to_unreal.
ReturnWithoutReconnect ==
    /\ pc = "except"
    /\ Return(101, ErrorReply(<<"Communication error: ", exc>>))
    /\ UNCHANGED <<socket_client, opened, peer, wire, command, params, depth, connects,
                   sends, recvs, faults, exc, remoteSent, chunk, rxSlot, lifespan,
                   callArgs, payload, faulted, stale>>

\* lines 96-101: the reconnect fails
ReconnectFail ==
    /\ pc = "except"
    /\ LET c == connect_to_unreal(FALSE, opened)
       IN  /\ Connected(c)
           /\ IF c.raises
              THEN pc' = "raised" /\ UNCHANGED <<ret, replies, reply>>
              ELSE Return(101, ErrorReply(<<"Communication error: ", exc>>))
    /\ UNCHANGED <<command, params, depth, sends, recvs, faults, exc, remoteSent, chunk,
                   rxSlot, lifespan, callArgs, payload, faulted>>

\* the remote process goes away while no call is running
RemoteClose ==
    /\ pc \in {"idle", "done"}
    /\ socket_client # 0
    /\ peer = "open"
    /\ peer' = "closed"
    /\ UNCHANGED <<socket_client, opened, wire, pc, command, params, depth, connects,
                   sends, recvs, faults, exc, remoteSent, chunk, rxSlot, ret, replies,
                   reply, lifespan, callArgs, payload, faulted, stale>>

\* the steps of send_command
ClientStep ==
    \/ StartConnected \/ StartConnectOk \/ StartConnectFail
    \/ SendFault \/ SendOk
    \/ RecvChunk \/ RecvEmpty \/ LoopAgain \/ RecvFault
    \/ ReconnectOk \/ ReconnectFail

\* the startup handler
Startup == StartupConnectOk \/ StartupConnectFail

Next == Startup \/ Call \/ ClientStep \/ RemoteClose

Spec == Init /\ [][Next]_vars

\* every call the program makes (connect, sendall, recv) returns or raises
FairSpec == Spec /\ WF_vars(ClientStep) /\ WF_vars(Startup)

-----------------------------------------------------------------------------
(* The decoder on every short byte string: a connection on which the       *)
(* remote has written any bytes at all in answer to the first sendall, and *)
(* the recv and decoding of lines 63-94.                                   *)

DecodeAlphabet == {"[", "]", Q, "'", "\\", "\n", "1", "a", InvalidByte}

ByteStrings == UNION {[1..n -> DecodeAlphabet] : n \in 1..MaxChunkLen}

InitDecode ==
    /\ socket_client = 1
    /\ opened = 1
    /\ peer = "open"
    /\ wire \in ByteStrings
    /\ pc = "recv"
    /\ command = "get_actors"
    /\ params = EmptyParams
    /\ depth = 0
    /\ connects = 1
    /\ sends = 1
    /\ recvs = 0
    /\ faults = 0
    /\ exc = "none"
    /\ remoteSent = wire
    /\ chunk = <<>>
    /\ rxSlot = 0
    /\ ret = 0
    /\ replies = 0
    /\ reply = NoValue
    /\ lifespan = "Connected to Unreal Engine"
    /\ callArgs = <<"get_actors", NoValue>>
    /\ payload = json_dumps(build_message("get_actors", EmptyParams))
    /\ faulted = {}
    /\ stale = 0

NextDecode == RecvChunk

SpecDecode == InitDecode /\ [][NextDecode]_vars

-----------------------------------------------------------------------------
(* Vocabulary of the properties.                                           *)

\* the text handed to json.loads for the received bytes b
NormalizedText(b) == replace(strip(decode_utf8(b)))
ParseOf(b) == json_loads(NormalizedText(b))

\* what the bytes b encode as they stand, without any normalisation
Encoded(b) == json_loads(decode_utf8(b))

IsErrorReply(v) == IsObject(v) /\ dict_get(v, "status") = Str(<<"error">>)
IsSuccessReply(v) == IsObject(v) /\ dict_get(v, "status") = Str(<<"success">>)

Running == pc \in {"start", "send", "recv", "loop", "except"}
Returned == pc = "done"

\* c is a proper, non-empty beginning of the reply r
Truncated(c, r) == c # <<>> /\ Len(c) < Len(r) /\ c = SubSeq(r, 1, Len(c))

AllStripChars(s) == \A i \in 1..Len(s) : s[i] \in StripChars

-----------------------------------------------------------------------------
\* C1 (retry bound): a call of send_command makes at most two connection attempts
\* and at most two sends, and enters the fault handler at most once.
C1_RetryBound == connects <= 2 /\ sends <= 2 /\ faults <= 1

\* The safety part of C2: no exception ever leaves send_command; a call that has
\* ended has returned exactly one value and a running call none; a call that ended on
\* a failed connect (line 46), on a failed reconnect after a fault (line 101), or on
\* received bytes that do not parse, has returned a Reply whose status is error.
NoFaultPropagated ==
    /\ pc # "raised"
    /\ Returned => replies = 1 /\ ret \in {46, 94, 101}
    /\ Running => replies = 0
    /\ (Returned /\ ret \in {46, 101}) => IsErrorReply(reply)
    /\ (Returned /\ ret = 94 /\ ParseOf(chunk).err # "none") => IsErrorReply(reply)

\* C2 (one Reply, no fault propagated): every call of send_command ends by returning
\* exactly one value to its caller, no exception ever leaves send_command, and every
\* failure path ends in a Reply whose status is error.
C2_OneReplyNoFault ==
    /\ []NoFaultPropagated
    /\ (pc = "start") ~> (Returned /\ replies = 1)

\* C3 (termination): every call of send_command that has started eventually returns,
\* given that every connect, sendall and recv the call makes returns or raises.
C3_Termination == (pc = "start") ~> Returned

\* C4 (success echo): when no fault occurred and the single recv delivered the whole
\* reply the remote wrote, a well-formed success payload, the value returned has
\* status success and exactly the result the remote encoded, after one send, one
\* recv and no reconnect.
C4_SuccessEcho ==
    (/\ Returned
     /\ faults = 0
     /\ remoteSent # <<>>
     /\ chunk = remoteSent
     /\ Encoded(remoteSent).err = "none"
     /\ IsSuccessReply(Encoded(remoteSent).val))
    => /\ IsSuccessReply(reply)
       /\ dict_get(reply, "result") = dict_get(Encoded(remoteSent).val, "result")
       /\ sends = 1 /\ recvs = 1 /\ connects <= 1

\* C5 (not connected): a call that starts with the slot empty either connects and
\* goes on to send, or, when its connect attempt fails, returns the error Reply
\* "Not connected to Unreal Engine" after exactly one connection attempt and no send
\* or recv, raising nothing and leaving the slot empty.
C5_NotConnected ==
    [][(pc = "start" /\ socket_client = 0)
        => \/ pc' = "send" /\ socket_client' # 0 /\ peer' = "open"
           \/ /\ pc' = "done" /\ ret' = 46 /\ replies' = 1
              /\ reply' = ErrorReply(<<"Not connected to Unreal Engine">>)
              /\ connects' = 1 /\ sends' = 0 /\ recvs' = 0
              /\ socket_client' = 0]_vars

C5_Witness ==
    /\ Returned /\ ret = 46 /\ socket_client = 0
    /\ connects = 1 /\ sends = 0 /\ recvs = 0
    /\ IsErrorReply(reply)

\* C6 as stated: when the bytes received are a truncated reply that fails to parse,
\* the value returned is an error Reply whose message equals the raw decoded text.
C6_MessageIsRawText ==
    (/\ Returned /\ ret = 94
     /\ Truncated(chunk, remoteSent)
     /\ ParseOf(chunk).err = "JSONDecodeError")
    => /\ IsErrorReply(reply)
       /\ dict_get(reply, "message") = Str(decode_utf8(chunk))

\* the diagnostic text of the amended C6
BestText(b) ==
    IF NormalizedText(b) # <<>> THEN NormalizedText(b)
    ELSE IF strip(decode_utf8(b)) # <<>> THEN strip(decode_utf8(b))
    ELSE decode_utf8(b)

\* C6 (amended): when the bytes received are a truncated reply on which parsing
\* fails with a JSON decode error, the value returned is an error Reply whose message
\* is "Json error: " followed by the text after stripping and removal of
\* backslash-quote sequences if that is not empty, else by the stripped text if that
\* is not empty, else by the raw decoded text.
C6_JsonErrorMessage ==
    (/\ Returned /\ ret = 94
     /\ Truncated(chunk, remoteSent)
     /\ ParseOf(chunk).err = "JSONDecodeError")
    => reply = ErrorReply(<<"Json error: ">> \o BestText(chunk))

\* a truncated reply whose normalised text differs from its raw text was reported
C6_Witness ==
    /\ Returned /\ ret = 94
    /\ Truncated(chunk, remoteSent)
    /\ ParseOf(chunk).err = "JSONDecodeError"
    /\ NormalizedText(chunk) # decode_utf8(chunk)
    /\ IsErrorReply(reply)

\* C7 (decoder round trip): whenever the received bytes are a valid JSON encoding J
\* between any number of leading and trailing quote, newline and carriage-return
\* characters, the decoding returns exactly the value J encodes.
C7_RoundTrip ==
    (pc \in {"done", "except"} /\ chunk # <<>>)
    => \A i \in 1..Len(chunk) : \A j \in i..Len(chunk) :
          (/\ AllStripChars(SubSeq(chunk, 1, i - 1))
           /\ AllStripChars(SubSeq(chunk, j + 1, Len(chunk)))
           /\ Encoded(SubSeq(chunk, i, j)).err = "none")
          => /\ Returned /\ ret = 94
             /\ reply = Encoded(SubSeq(chunk, i, j)).val

\* C8 (single-chunk read): a call never makes more recv calls than sends, whatever
\* recv returns, and a truncated first chunk is returned as an error Reply.
C8_SingleRead ==
    /\ recvs <= sends
    /\ (Returned /\ ret = 94 /\ Truncated(chunk, remoteSent)) => IsErrorReply(reply)

\* C9 (fault, then failed reconnect): a call that leaves the fault handler by
\* returning has returned the error Reply "Communication error: <the fault>" and
\* left the slot empty, with no send or recv after the fault; and a call that starts
\* with the slot empty begins with a connection attempt.
C9_FaultThenNoReconnect ==
    /\ [](Returned /\ ret = 101
           => /\ reply = ErrorReply(<<"Communication error: ", exc>>)
              /\ exc # "none"
              /\ faults >= 1
              /\ socket_client = 0 /\ peer = "none")
    /\ [][(pc = "except" /\ pc' = "done")
           => ret' = 101 /\ sends' = sends /\ recvs' = recvs]_vars
    /\ [][(pc = "start" /\ socket_client = 0)
           => connects' = connects + 1 /\ sends' = sends /\ recvs' = recvs]_vars

\* a send fault on a held connection followed by a failed reconnect
C9_Witness ==
    /\ Returned /\ ret = 101
    /\ exc = "BrokenPipeError"
    /\ faults = 1 /\ sends = 1 /\ recvs = 0
    /\ socket_client = 0

\* C10 (a received reply is not a fault): once recv has returned bytes, the call has
\* ended by returning from line 94, the slot holds the handle it held at the recv,
\* and a reply that parsed is returned as parsed.
C10_ReceivedNotFault ==
    chunk # <<>>
    => /\ Returned /\ ret = 94
       /\ socket_client = rxSlot
       /\ ParseOf(chunk).err = "none" => reply = ParseOf(chunk).val

\* C11 (connection slot): connect_to_unreal never raises. When it succeeds its caller
\* goes on as after a true result and the slot holds the handle it has just opened, a
\* handle that was never in the slot before; when it fails its caller goes on as after
\* a false result and the slot is empty, also when a handle was held before the
\* attempt. In every state the slot is empty or holds one handle that was opened.
C11_ConnectSlot ==
    /\ [](/\ pc # "raised"
          /\ socket_client \in 0..opened
          /\ (socket_client = 0) <=> (peer = "none"))
    /\ [][connects' = connects + 1
          => \/ /\ socket_client' = opened + 1 /\ opened' = opened + 1
                /\ socket_client' # socket_client
                /\ peer' = "open"
                /\ pc' = (IF pc = "boot" THEN "idle" ELSE IF pc = "start" THEN "send" ELSE "start")
                /\ pc = "boot" => lifespan' = "Connected to Unreal Engine"
             \/ /\ socket_client' = 0 /\ opened' = opened
                /\ peer' = "none"
                /\ pc' = (IF pc = "boot" THEN "idle" ELSE "done")
                /\ pc = "boot" => lifespan' # "Connected to Unreal Engine"
                /\ pc = "start" => ret' = 46
                /\ pc = "except" => ret' = 101]_vars

\* a reconnect replaced a held handle, and a later failed reconnect emptied the slot
\* that held the replacement
C11_Witness ==
    /\ Returned /\ ret = 101
    /\ depth >= 1 /\ opened >= 2
    /\ socket_client = 0

\* C12 (startup is not fatal): the startup handler completes and the server reaches
\* the state where it accepts calls, whether the connection attempt of the handler
\* succeeded (the slot holds the handle) or failed (the slot is empty and a warning is
\* yielded). As long as no connection has been opened after a failed startup the slot
\* stays empty, and a call that starts then makes a connection attempt before any
\* send; when that attempt succeeds the call goes on to send on the new handle.
C12_StartupNonFatal ==
    /\ (pc = "boot") ~> (pc = "idle")
    /\ [][pc = "boot"
          => /\ pc' = "idle"
             /\ \/ socket_client' # 0 /\ lifespan' = "Connected to Unreal Engine"
                \/ /\ socket_client' = 0
                   /\ lifespan' = "Warning: Not connected to Unreal Engine. Make sure the plugin is running."]_vars
    /\ []((lifespan # "Connected to Unreal Engine" /\ opened = 0)
           => socket_client = 0 /\ sends = 0 /\ pc \notin {"send", "recv", "loop", "except"})
    /\ [][(lifespan # "Connected to Unreal Engine" /\ opened = 0 /\ pc = "start")
          => /\ connects' = 1 /\ sends' = 0
             /\ \/ pc' = "send" /\ socket_client' = 1 /\ peer' = "open"
                \/ pc' = "done" /\ ret' = 46 /\ socket_client' = 0]_vars

\* the startup connection failed, and the first connection ever opened was opened by a
\* call that then received a success reply
C12_Witness ==
    /\ lifespan = "Warning: Not connected to Unreal Engine. Make sure the plugin is running."
    /\ Returned /\ ret = 94
    /\ opened = 1 /\ connects = 1 /\ sends = 1
    /\ IsSuccessReply(reply)

\* C13 (diagnostic text): when parsing the received bytes fails with a JSON decode
\* error, the value returned is an error Reply whose message carries, after
\* "Json error: ", the text after stripping and removal of backslash-quote sequences
\* if that is not empty, else the stripped text if that is not empty, else the raw
\* decoded text if that is not empty, else the parser's description of the error.
C13_DiagnosticPriority ==
    (Returned /\ ret = 94 /\ ParseOf(chunk).err = "JSONDecodeError")
    => /\ IsErrorReply(reply)
       /\ dict_get(reply, "message") =
             Str(<<"Json error: ">>
                 \o (IF NormalizedText(chunk) # <<>> THEN NormalizedText(chunk)
                     ELSE IF strip(decode_utf8(chunk)) # <<>> THEN strip(decode_utf8(chunk))
                     ELSE IF decode_utf8(chunk) # <<>> THEN decode_utf8(chunk)
                     ELSE JsonErrorText))

\* bytes that strip to nothing were reported by their raw decoded text
C13_Witness ==
    /\ Returned /\ ret = 94
    /\ ParseOf(chunk).err = "JSONDecodeError"
    /\ NormalizedText(chunk) = <<>>
    /\ Len(chunk) >= 2
    /\ dict_get(reply, "message") = Str(<<"Json error: ">> \o decode_utf8(chunk))

\* C14 (a faulted handle is not reused): a handle on which sendall or recv has raised
\* is in the slot only while the handler of that fault has not yet called
\* connect_to_unreal; that call empties the slot or puts a newly opened handle in
\* it, so every later send and receive, in the retry and in later calls, is on a
\* handle that has never faulted.
C14_FaultedHandleDropped ==
    /\ [](pc # "except" => socket_client \notin faulted)
    /\ [](pc \in {"send", "recv", "loop"} => socket_client # 0 /\ socket_client \notin faulted)
    /\ [][pc = "except"
          => \/ socket_client' = 0
             \/ socket_client' = opened + 1 /\ socket_client' \notin faulted']_vars

\* a call after the one whose handle faulted receives on another handle
C14_Witness ==
    /\ pc = "recv"
    /\ depth = 0 /\ faults = 0
    /\ faulted # {}
    /\ socket_client # 0 /\ socket_client \notin faulted

\* C15 (connection reuse): a call that starts with a handle in the slot goes to its
\* first send without a connection attempt; a running call makes a connection attempt
\* only when it started with an empty slot or when a send or receive has faulted on
\* the handle in the slot, and otherwise leaves the handle where it is; and as long as
\* no send or receive has ever faulted, at most one connection has been opened.
C15_ConnectionReuse ==
    /\ [][(pc = "start" /\ socket_client # 0)
          => pc' = "send" /\ UNCHANGED <<socket_client, opened, connects>>]_vars
    /\ [][(Running /\ (connects' # connects \/ socket_client' # socket_client))
          => \/ pc = "start" /\ socket_client = 0
             \/ socket_client \in faulted]_vars
    /\ [](faulted = {} => opened <= 1)

\* the message the caller of the running call asked for: its operation name under
\* "command" and its parameters, or an empty mapping when it passed none, under "params"
CallersMessage ==
    <<"object", << <<Key("command"), Str(<<callArgs[1]>>)>>,
                   <<Key("params"), IF callArgs[2] = NoValue THEN EmptyParams ELSE callArgs[2]>> >> >>

\* C16 (payload): the bytes handed to every sendall of a call, in the first attempt
\* and in every retry, are one JSON text that encodes the object with the caller's
\* operation name under "command" and the caller's parameters under "params", an empty
\* mapping when the caller passed none.
C16_Payload ==
    (payload # <<>> \/ pc \in {"recv", "loop"})
    => /\ json_loads(payload).err = "none"
       /\ json_loads(payload).val = CallersMessage
       /\ payload = json_dumps(CallersMessage)

\* the retry of an execute_python call has sent its payload again
C16_Witness ==
    /\ pc = "recv"
    /\ depth = 1 /\ faults = 1
    /\ command = "execute_python"
    /\ json_loads(payload).val = CallersMessage

\* C17 (request/reply correspondence): the bytes from which a returned Reply was
\* decoded were all written by the remote in answer to the request of the same call:
\* none of them was already waiting unread on the connection when that request was
\* sent.
C17_OwnReplyOnly ==
    (Returned /\ ret = 94 /\ chunk # <<>>) => stale = 0

\* C18 (no I/O on an empty slot): whenever the program is about to send or to receive,
\* in a first attempt or in a retry, the slot holds a handle, and the connect of that
\* handle succeeded; every step that sends or receives starts from such a state.
C18_NoIOOnEmptySlot ==
    /\ [](pc \in {"send", "recv", "loop"}
          => socket_client \in 1..opened /\ peer \in {"open", "closed", "reset"})
    /\ [][(sends' # sends \/ recvs' # recvs \/ chunk' # chunk \/ payload' # payload)
          => \/ pc' = "start" /\ pc \in {"idle", "done"}
             \/ socket_client # 0 /\ peer # "none"]_vars

\* the retry, on the handle opened by the handler, is about to receive
C18_Witness ==
    /\ pc = "recv"
    /\ depth >= 1
    /\ socket_client = opened /\ opened >= 2
    /\ peer = "open"

\* C19 (reply shape): every value send_command returns is a mapping, so that the
\* lookup of "status" the adapters perform on it is defined.
C19_ReplyIsMapping ==
    Returned => IsObject(reply)

====
